---------------------------- MODULE Spec2Model ----------------------------
(***************************************************************************)
(* NexMind: the chat page (frontend/app/chat/page.tsx and its earlier      *)
(* revisions), the agent pipeline the page talks to, and the start         *)
(* scripts.                                                                *)
(*                                                                         *)
(* Spec       the chat page: handleSendMessage, handleAgentStream,         *)
(*            handleKeyPress, the panels and the auto-collapse timer,      *)
(*            against a backend that may answer anything.                  *)
(* SpecSimulated  the revision of the page that plays simulated actions.   *)
(* SpecAgent  the agent's pipeline of stages for one request after         *)
(*            another.                                                     *)
(* SpecStart  one run of a start script (start.sh with uv, start.sh with   *)
(*            pip, start.bat).                                             *)
(***************************************************************************)
EXTENDS Integers, Sequences, FiniteSets, TLC

VARIABLES
    page,            \* which revision of the page is mounted
    messages,        \* useState<Message[]>
    inputValue,      \* useState('') : the textarea's text, a sequence of characters
    isLoading,       \* useState(false)
    agentActions,    \* useState<AgentAction[]>([])
    showAgentPanel,  \* useState(false)
    showReportPanel, \* useState(false)
    currentReport,   \* useState<string>('')
    reportTitle,     \* useState<string>('') : TRUE once a title has been set
    timers,          \* pending setTimeout callbacks of the page
    calls,           \* one record per accepted handleSendMessage invocation
    uiEvent,         \* the DOM event dispatched by the last step, if any
    agent,           \* the backend's agent working on one request
    script           \* a run of the start script and the machine it runs on

pageVars == <<messages, inputValue, isLoading, agentActions, showAgentPanel,
              showReportPanel, currentReport, reportTitle>>
chatVars == <<page, messages, inputValue, isLoading, agentActions, showAgentPanel,
              showReportPanel, currentReport, reportTitle, timers, calls, uiEvent>>
vars == <<page, messages, inputValue, isLoading, agentActions, showAgentPanel,
          showReportPanel, currentReport, reportTitle, timers, calls, uiEvent,
          agent, script>>

-----------------------------------------------------------------------------
(* Bounds *)

\* accepted sends per session
MaxSends == 2

\* pieces of text per chunk of the response stream
MaxChunk == 5

-----------------------------------------------------------------------------
(* Text.  A string is modelled by what the page looks at: its identity     *)
(* (txt) and its length (len).                                             *)

ReportThreshold == 500

Text(label, n) == [txt |-> <<label>>, len |-> n]

EmptyText == [txt |-> <<>>, len |-> 0]

Greeting == Text("greeting", 66)

LoadingText == Text("loading", 12)

ApologyText == Text("apology", 21)

UnavailableText == Text("unavailable", 25)

\* what a backend may put into a "response" field
Responses == {EmptyText, Text("reply", ReportThreshold), Text("report", ReportThreshold + 1)}

Truthy(s) == s.len > 0

\* the textarea's content: characters typed by the user
InputValues == {<<>>, <<" ">>, <<" ", "a">>}

IsSpace(c) == c \in {" ", "\n", "\t"}

RECURSIVE TrimStart(_)
TrimStart(s) ==
    IF s # <<>> /\ IsSpace(Head(s)) THEN TrimStart(Tail(s)) ELSE s

RECURSIVE TrimEnd(_)
TrimEnd(s) ==
    IF s # <<>> /\ IsSpace(s[Len(s)]) THEN TrimEnd(SubSeq(s, 1, Len(s) - 1)) ELSE s

Trim(s) == TrimEnd(TrimStart(s))

InputText(v) == [txt |-> v, len |-> Len(v)]

-----------------------------------------------------------------------------
(* Messages and agent actions.  Timestamps and message ids are display     *)
(* data and are left out; an action's description is copied with its       *)
(* title.  An action's id is kept where the page looks actions up by id    *)
(* (the simulated actions) and is empty elsewhere.                         *)

UserMessage(v) == [type |-> "user", content |-> InputText(v), isLoading |-> FALSE]

BotMessage(c) == [type |-> "bot", content |-> c, isLoading |-> FALSE]

LoadingMessage == [type |-> "bot", content |-> LoadingText, isLoading |-> TRUE]

InitialMessages == <<BotMessage(Greeting)>>

\* prev.filter(msg => !msg.isLoading)
\* a filter that lets every message pass
FilterLoadingPassing(ms) == ms

RECURSIVE FilterLoading(_)
FilterLoading(ms) ==
    IF ms = <<>> THEN <<>>
    ELSE IF Head(ms).isLoading THEN FilterLoading(Tail(ms))
    ELSE <<Head(ms)>> \o FilterLoading(Tail(ms))

\* ReplaceLoading without the filter: the placeholder stays
ReplaceLoadingKept(ms, c) == Append(ms, BotMessage(c))

\* prev => [...prev.filter(msg => !msg.isLoading), reply]
ReplaceLoading(ms, c) == Append(FilterLoading(ms), BotMessage(c))

\* step names: a name is a sequence of words, so that includes() can be computed;
\* the words stand for the page's keywords (sousuo: search, fenxi: analyse,
\* baogao: report) and "chuli cuowu" for the title of the error action
Includes(name, word) == \E i \in 1..Len(name) : name[i] = word

ActionType(name) ==
    IF Includes(name, "sousuo") THEN "search"
    ELSE IF Includes(name, "fenxi") THEN "analyze"
    ELSE IF Includes(name, "baogao") THEN "generate"
    ELSE "complete"

ActionStatus(status) ==
    IF status = "running" THEN "running"
    ELSE IF status = "completed" THEN "completed"
    ELSE "pending"

NewAction(data) ==
    [id |-> <<>>, type |-> ActionType(data.step_name), title |-> data.step_name,
     status |-> ActionStatus(data.status)]

ErrorAction == [id |-> <<>>, type |-> "complete", title |-> <<"chuli", "cuowu">>, status |-> "error"]

\* prev.findIndex(a => a.title === title): 0 stands for -1
FindIndex(prev, title) ==
    IF \E i \in 1..Len(prev) : prev[i].title = title
    THEN CHOOSE i \in 1..Len(prev) :
            /\ prev[i].title = title
            /\ \A j \in 1..(i - 1) : prev[j].title # title
    ELSE 0

\* an updater that appends without looking for the title
UpsertActionAppending(prev, newAction) == Append(prev, newAction)

\* the updater passed to setAgentActions for a step event
UpsertAction(prev, newAction) ==
    LET existingIndex == FindIndex(prev, newAction.title) IN
    IF existingIndex >= 1
    THEN [prev EXCEPT ![existingIndex] = newAction]
    ELSE Append(prev, newAction)

-----------------------------------------------------------------------------
(* The response stream.  What the server writes is a sequence of text      *)
(* pieces; a piece is the line prefix "data: ", one half of a JSON         *)
(* payload, some other text, or the line feed.  The network cuts the       *)
(* stream into chunks between any two pieces, so a chunk may end in the    *)
(* middle of a line.                                                       *)

NoEvent == [type |-> "none", step_name |-> <<>>, status |-> "", response |-> EmptyText]

StepEvent(n, st) == [type |-> "step", step_name |-> n, status |-> st, response |-> EmptyText]

FinalEvent(r) == [type |-> "final", step_name |-> <<>>, status |-> "", response |-> r]

ErrorEvent == [type |-> "error", step_name |-> <<>>, status |-> "", response |-> EmptyText]

\* a payload that is not JSON
Garbage == [type |-> "garbage", step_name |-> <<>>, status |-> "", response |-> EmptyText]

\* the step events a backend may send: two steps, the statuses the page knows
\* and one it does not
StepEvents ==
    {StepEvent(<<"guihua">>, "running"), StepEvent(<<"guihua">>, "completed"),
     StepEvent(<<"sousuo", "fenxi">>, "failed")}

Events == StepEvents \cup {FinalEvent(r) : r \in Responses} \cup {ErrorEvent}

Payloads == Events \cup {Garbage}

Piece(k, p, h) == [kind |-> k, payload |-> p, half |-> h]

LF == Piece("lf", NoEvent, 0)

DataPrefix == Piece("data", NoEvent, 0)

OtherText == Piece("text", NoEvent, 0)

JsonHalf(p, h) == Piece("json", p, h)

\* where the server is within the line it is writing
AtLineStart == [at |-> "start", payload |-> NoEvent]

AfterPrefix == [at |-> "prefix", payload |-> NoEvent]

AfterHalf(p) == [at |-> "half", payload |-> p]

AtLineEnd == [at |-> "end", payload |-> NoEvent]

\* the pieces the server may write next, each with where that leaves it
NextPieces(s) ==
    CASE s.at = "start"  -> {<<LF, AtLineStart>>, <<OtherText, AtLineEnd>>,
                             <<DataPrefix, AfterPrefix>>}
      [] s.at = "prefix" -> {<<JsonHalf(p, 1), AfterHalf(p)>> : p \in Payloads}
      [] s.at = "half"   -> {<<JsonHalf(s.payload, 2), AtLineEnd>>}
      [] s.at = "end"    -> {<<LF, AtLineStart>>}

\* the chunks of exactly n pieces that may arrive when the server is at s
RECURSIVE ChunksOfLen(_, _)
ChunksOfLen(s, n) ==
    IF n = 0 THEN {[bytes |-> <<>>, server |-> s]}
    ELSE UNION {
            {[bytes |-> <<e[1]>> \o c.bytes, server |-> c.server] :
                c \in ChunksOfLen(e[2], n - 1)} : e \in NextPieces(s)}

ServerStates == {AtLineStart, AfterPrefix, AtLineEnd} \cup {AfterHalf(p) : p \in Payloads}

ChunksAtStart == UNION {ChunksOfLen(AtLineStart, n) : n \in 1..MaxChunk}

ChunksAfterPrefix == UNION {ChunksOfLen(AfterPrefix, n) : n \in 1..MaxChunk}

ChunksAtEnd == UNION {ChunksOfLen(AtLineEnd, n) : n \in 1..MaxChunk}

ChunksAfterEnd == UNION {ChunksOfLen(AtLineEnd, n) : n \in 0..(MaxChunk - 1)}

ChunksFrom(s) ==
    CASE s.at = "start"  -> ChunksAtStart
      [] s.at = "prefix" -> ChunksAfterPrefix
      [] s.at = "end"    -> ChunksAtEnd
      [] s.at = "half"   -> {[bytes |-> <<JsonHalf(s.payload, 2)>> \o c.bytes, server |-> c.server] :
                                c \in ChunksAfterEnd}

\* chunk.split('\n')
RECURSIVE Split(_)
Split(chunk) ==
    IF \A i \in 1..Len(chunk) : chunk[i] # LF THEN <<chunk>>
    ELSE LET i == CHOOSE k \in 1..Len(chunk) :
                     chunk[k] = LF /\ \A j \in 1..(k - 1) : chunk[j] # LF
         IN <<SubSeq(chunk, 1, i - 1)>> \o Split(SubSeq(chunk, i + 1, Len(chunk)))

\* what one read delivers: the lines of the chunk, and where the server is
\* after it
Read(chunk) == [lines |-> Split(chunk.bytes), server |-> chunk.server]

ReadsAtStart == {Read(c) : c \in ChunksFrom(AtLineStart)}

ReadsAfterPrefix == {Read(c) : c \in ChunksFrom(AfterPrefix)}

ReadsAtEnd == {Read(c) : c \in ChunksFrom(AtLineEnd)}

ReadsAfterEnd == {Read(c) : c \in ChunksAfterEnd}

\* the reads that may come when the server is at s; after the first half of
\* a payload the chunk begins with the second half
ReadsFrom(s) ==
    CASE s.at = "start"  -> ReadsAtStart
      [] s.at = "prefix" -> ReadsAfterPrefix
      [] s.at = "end"    -> ReadsAtEnd
      [] s.at = "half"   -> {[r EXCEPT !.lines[1] = <<JsonHalf(s.payload, 2)>> \o @] :
                                r \in ReadsAfterEnd}

\* line.startsWith('data: ')
StartsWithData(line) == line # <<>> /\ Head(line) = DataPrefix

\* JSON.parse(line.slice(6).trim()): the event, or Garbage when it throws
JsonParse(line) ==
    LET rest == Tail(line) IN
    IF /\ Len(rest) = 2
       /\ rest[1].kind = "json" /\ rest[1].half = 1
       /\ rest[2] = JsonHalf(rest[1].payload, 2)
       /\ rest[1].payload \in Events
    THEN rest[1].payload
    ELSE Garbage

-----------------------------------------------------------------------------
(* handleSendMessage invocations.  A record of calls holds the position of *)
(* one accepted invocation (pc: the await it is suspended at) and its      *)
(* locals; failure, seen, errorSeen, finalSeen and posts record what has   *)
(* failed, what the invocation has read and what it has requested so far.  *)

Pages == {"stream", "plain"}

NewCall(q, at) ==
    [pc |-> at, query |-> q, server |-> AtLineStart,
     result |-> EmptyText, failure |-> "", seen |-> {}, errorSeen |-> FALSE,
     finalSeen |-> FALSE,
     posts |-> IF at = "post" THEN 1 ELSE 0]

DoneCall == [NewCall(<<>>, "done") EXCEPT !.posts = 0]

Active(c) == c.pc # "done"

\* requests of the call the backend has not answered yet
InFlight(c) == IF c.pc \in {"fetch", "read", "post"} THEN 1 ELSE 0

RECURSIVE SumInFlight(_)
SumInFlight(cs) == IF cs = <<>> THEN 0 ELSE InFlight(Head(cs)) + SumInFlight(Tail(cs))

NoUiEvent ==
    [kind |-> "none", key |-> "", shift |-> FALSE, prevented |-> FALSE,
     called |-> FALSE, accepted |-> FALSE]

\* the keys pressed in the textarea: [key, shiftKey]
KeyEvents == {<<"Enter", FALSE>>, <<"Enter", TRUE>>, <<"a", FALSE>>}

\* SendRejected without trim(): blank input is accepted
SendRejectedUntrimmed(input, loading) == input = <<>> \/ loading

\* the guard of handleSendMessage: if (!inputValue.trim() || isLoading) return
SendRejected(input, loading) == Trim(input) = <<>> \/ loading

\* disabled={isLoading} of the textarea
TextareaDisabled == isLoading

\* disabled={!inputValue.trim() || isLoading} of the send button
SendButtonDisabled == Trim(inputValue) = <<>> \/ isLoading

CollapseTimer(i) == [kind |-> "collapse", call |-> i, index |-> 0]

StartTimer(i, k) == [kind |-> "start", call |-> i, index |-> k]

CompleteTimer(i, k) == [kind |-> "complete", call |-> i, index |-> k]

\* the three actions simulateAgentActions plays, by index
SimulatedTypes == <<"search", "analyze", "generate">>

SimulatedTitles == <<<<"sousuo", "qiye", "xinxi">>, <<"shuju", "fenxi">>, <<"shengcheng", "baogao">>>>

\* the synchronous part of an accepted handleSendMessage
AcceptSend ==
    LET i == Len(calls) + 1 IN
    /\ messages' = messages \o <<UserMessage(inputValue), LoadingMessage>>
    /\ inputValue' = <<>>
    /\ isLoading' = TRUE
    /\ reportTitle' = reportTitle
    /\ CASE page = "stream" ->
              \* ... and handleAgentStream up to its await fetch
              /\ showAgentPanel' = TRUE
              /\ agentActions' = <<>>
              /\ currentReport' = EmptyText
              /\ showReportPanel' = FALSE
              /\ timers' = timers
              /\ calls' = Append(calls, NewCall(inputValue, "fetch"))
         [] page = "simulated" ->
              \* simulateAgentActions, then axios.post
              /\ showAgentPanel' = TRUE
              /\ agentActions' = <<>>
              /\ timers' = timers \cup {StartTimer(i, k) : k \in 1..Len(SimulatedTypes)}
              /\ calls' = Append(calls, NewCall(inputValue, "post"))
              /\ UNCHANGED <<currentReport, showReportPanel>>
         [] page = "plain" ->
              /\ calls' = Append(calls, NewCall(inputValue, "post"))
              /\ UNCHANGED <<showAgentPanel, agentActions, currentReport,
                             showReportPanel, timers>>

\* handleSendMessage, called by the DOM event ev
HandleSendMessage(ev) ==
    IF SendRejected(inputValue, isLoading)
    THEN /\ uiEvent' = [ev EXCEPT !.called = TRUE]
         /\ UNCHANGED <<pageVars, timers, calls>>
    ELSE /\ Len(calls) < MaxSends
         /\ uiEvent' = [ev EXCEPT !.called = TRUE, !.accepted = TRUE]
         /\ AcceptSend

\* HandleKeyPress without the shiftKey test
HandleKeyPressAnyEnter(key, shift) ==
    LET ev == [NoUiEvent EXCEPT !.kind = "keypress", !.key = key, !.shift = shift] IN
    IF key = "Enter"
    THEN HandleSendMessage([ev EXCEPT !.prevented = TRUE])
    ELSE /\ uiEvent' = ev
         /\ UNCHANGED <<pageVars, timers, calls>>

\* handleKeyPress: onKeyPress of the textarea
HandleKeyPress(key, shift) ==
    LET ev == [NoUiEvent EXCEPT !.kind = "keypress", !.key = key, !.shift = shift] IN
    IF key = "Enter" /\ ~shift
    THEN HandleSendMessage([ev EXCEPT !.prevented = TRUE])
    ELSE /\ uiEvent' = ev
         /\ UNCHANGED <<pageVars, timers, calls>>

KeyPress ==
    /\ ~TextareaDisabled
    /\ \E e \in KeyEvents : HandleKeyPress(e[1], e[2])
    /\ UNCHANGED <<page, agent, script>>

\* onClick of the send button
ClickSend ==
    /\ ~SendButtonDisabled
    /\ HandleSendMessage([NoUiEvent EXCEPT !.kind = "click"])
    /\ UNCHANGED <<page, agent, script>>

\* onChange of the textarea: setInputValue(e.target.value)
ChangeInput ==
    /\ ~TextareaDisabled
    /\ \E v \in InputValues : inputValue' = v
    /\ uiEvent' = NoUiEvent
    /\ UNCHANGED <<page, agent, script, messages, isLoading, agentActions, showAgentPanel,
                   showReportPanel, currentReport, reportTitle, timers, calls>>

-----------------------------------------------------------------------------
(* handleAgentStream *)

\* what one pass of the read loop's body works on: the page state it sets,
\* whether it has returned and with what, and the record of what it has read
LoopState(c) ==
    [agentActions |-> agentActions, currentReport |-> currentReport,
     showReportPanel |-> showReportPanel, reportTitle |-> reportTitle,
     timer |-> FALSE, returned |-> FALSE, result |-> EmptyText,
     seen |-> c.seen, errorSeen |-> c.errorSeen, finalSeen |-> c.finalSeen]

\* OnStep holding the update back: the event is read but not applied
OnStepHeld(st, data) ==
    [st EXCEPT !.seen = {e \in st.seen : e.step_name # data.step_name} \cup {data}]

\* data.type === 'step'
OnStep(st, data) ==
    [st EXCEPT !.agentActions = UpsertAction(st.agentActions, NewAction(data)),
               !.seen = {e \in st.seen : e.step_name # data.step_name} \cup {data}]

\* IsReport with >= for >
IsReportAtLeast(r) == Truthy(r) /\ r.len >= ReportThreshold

\* data.response && data.response.length > 500
IsReport(r) == Truthy(r) /\ r.len > ReportThreshold

\* data.type === 'final'
OnFinal(st, data) ==
    LET shown == IF IsReport(data.response)
                 THEN [st EXCEPT !.currentReport = data.response,
                                 !.reportTitle = TRUE,
                                 !.showReportPanel = TRUE]
                 ELSE st
    IN [shown EXCEPT !.timer = TRUE, !.returned = TRUE, !.result = data.response,
                     !.finalSeen = TRUE]

\* data.type === 'error': throw new Error(data.message) inside the try of the
\* line, whose catch logs it and goes on with the next line
OnError(st, data) == [st EXCEPT !.errorSeen = TRUE]

\* a loop that gives the stream up at a line that is no data line
OnLineGivingUp(st, line) ==
    IF ~StartsWithData(line) THEN [st EXCEPT !.returned = TRUE]
    ELSE LET data == JsonParse(line) IN
         CASE data.type = "step"  -> OnStep(st, data)
           [] data.type = "final" -> OnFinal(st, data)
           [] data.type = "error" -> OnError(st, data)
           [] OTHER               -> st

\* the body of: for (const line of lines)
OnLine(st, line) ==
    IF ~StartsWithData(line) THEN st
    ELSE LET data == JsonParse(line) IN
         CASE data.type = "step"  -> OnStep(st, data)
           [] data.type = "final" -> OnFinal(st, data)
           [] data.type = "error" -> OnError(st, data)
           [] OTHER               -> st

RECURSIVE OnLines(_, _)
OnLines(st, lines) ==
    IF lines = <<>> \/ st.returned THEN st
    ELSE OnLines(OnLine(st, Head(lines)), Tail(lines))

\* Throw without the error action
ThrowSilently(i, why) ==
    /\ agentActions' = agentActions
    /\ calls' = [calls EXCEPT ![i].pc = "threw", ![i].server = AtLineStart,
                              ![i].failure = why]
    /\ uiEvent' = NoUiEvent
    /\ UNCHANGED <<page, agent, script, messages, inputValue, isLoading, showAgentPanel,
                   showReportPanel, currentReport, reportTitle, timers>>

\* the catch of handleAgentStream: the error action is appended and the
\* error thrown again
Throw(i, why) ==
    /\ agentActions' = Append(agentActions, ErrorAction)
    /\ calls' = [calls EXCEPT ![i].pc = "threw", ![i].server = AtLineStart,
                              ![i].failure = why]
    /\ uiEvent' = NoUiEvent
    /\ UNCHANGED <<page, agent, script, messages, inputValue, isLoading, showAgentPanel,
                   showReportPanel, currentReport, reportTitle, timers>>

\* await fetch(...) resolves
FetchResolves ==
    \E i \in 1..Len(calls) :
        /\ calls[i].pc = "fetch"
        /\ \E ok \in BOOLEAN, reader \in BOOLEAN :
              IF ~ok \/ ~reader
              THEN Throw(i, IF ~ok THEN "not ok" ELSE "no reader")
              ELSE /\ calls' = [calls EXCEPT ![i].pc = "read"]
                   /\ uiEvent' = NoUiEvent
                   /\ UNCHANGED <<page, agent, script, pageVars, timers>>

\* await fetch(...) rejects
FetchRejects ==
    \E i \in 1..Len(calls) :
        /\ calls[i].pc = "fetch"
        /\ Throw(i, "fetch rejected")

\* await reader.read() resolves with a chunk
ReadChunk ==
    \E i \in 1..Len(calls) :
        /\ calls[i].pc = "read"
        /\ \E read \in {[st |-> OnLines(LoopState(calls[i]), r.lines), server |-> r.server] :
                              r \in ReadsFrom(calls[i].server)} :
              LET st == read.st IN
              /\ agentActions' = st.agentActions
              /\ currentReport' = st.currentReport
              /\ showReportPanel' = st.showReportPanel
              /\ reportTitle' = st.reportTitle
              /\ timers' = IF st.timer THEN timers \cup {CollapseTimer(i)} ELSE timers
              /\ calls' = [calls EXCEPT ![i].pc = IF st.returned THEN "returned" ELSE "read",
                                        ![i].server = IF st.returned THEN AtLineStart
                                                      ELSE read.server,
                                        ![i].result = st.result,
                                        ![i].seen = st.seen,
                                        ![i].errorSeen = st.errorSeen,
                                        ![i].finalSeen = st.finalSeen]
        /\ uiEvent' = NoUiEvent
        /\ UNCHANGED <<page, agent, script, messages, inputValue, isLoading, showAgentPanel>>

\* await reader.read() resolves with done: the loop ends and undefined is returned
ReadDone ==
    \E i \in 1..Len(calls) :
        /\ calls[i].pc = "read"
        /\ calls' = [calls EXCEPT ![i].pc = "returned", ![i].result = EmptyText,
                                  ![i].server = AtLineStart]
        /\ uiEvent' = NoUiEvent
        /\ UNCHANGED <<page, agent, script, pageVars, timers>>

\* await reader.read() rejects
ReadRejects ==
    \E i \in 1..Len(calls) :
        /\ calls[i].pc = "read"
        /\ Throw(i, "read rejected")

-----------------------------------------------------------------------------
(* handleSendMessage after its awaits *)

\* finally { setIsLoading(false) } after the reply c has replaced the placeholder
\* the reply is shown but the finally of handleSendMessage is left out
FinishStillLoading(i, c) ==
    /\ messages' = ReplaceLoading(messages, c)
    /\ isLoading' = isLoading
    /\ calls' = [calls EXCEPT ![i] = DoneCall]
    /\ uiEvent' = NoUiEvent

\* the reply replaces the placeholder, and finally: setIsLoading(false)
Finish(i, c) ==
    /\ messages' = ReplaceLoading(messages, c)
    /\ isLoading' = FALSE
    /\ calls' = [calls EXCEPT ![i] = DoneCall]
    /\ uiEvent' = NoUiEvent

\* HasFinalResponse taking only a report for a response
HasFinalResponseLong(finalResponse) == finalResponse.len > ReportThreshold

\* if (finalResponse)
HasFinalResponse(finalResponse) == Truthy(finalResponse)

\* await handleAgentStream(currentQuery) resolves: if (finalResponse) ... else axios.post
StreamReturned ==
    \E i \in 1..Len(calls) :
        /\ calls[i].pc = "returned"
        /\ IF HasFinalResponse(calls[i].result)
           THEN /\ Finish(i, calls[i].result)
                /\ UNCHANGED <<page, agent, script, inputValue, agentActions, showAgentPanel,
                               showReportPanel, currentReport, reportTitle, timers>>
           ELSE /\ calls' = [calls EXCEPT ![i].pc = "post", ![i].posts = @ + 1]
                /\ uiEvent' = NoUiEvent
                /\ UNCHANGED <<page, agent, script, pageVars, timers>>

\* await handleAgentStream(currentQuery) rejects: the catch of handleSendMessage
StreamThrew ==
    \E i \in 1..Len(calls) :
        /\ calls[i].pc = "threw"
        /\ Finish(i, UnavailableText)
        /\ UNCHANGED <<page, agent, script, inputValue, agentActions, showAgentPanel,
                       showReportPanel, currentReport, reportTitle, timers>>

\* await axios.post('/api/chat') resolves with response.data.response = r
PostResolves ==
    \E i \in 1..Len(calls) :
        /\ calls[i].pc = "post"
        /\ \E r \in Responses :
              /\ Finish(i, IF Truthy(r) THEN r ELSE ApologyText)
              /\ IF page = "stream" /\ IsReport(r)
                 THEN /\ currentReport' = r
                      /\ reportTitle' = TRUE
                      /\ showReportPanel' = TRUE
                 ELSE UNCHANGED <<currentReport, reportTitle, showReportPanel>>
        /\ UNCHANGED <<page, agent, script, inputValue, agentActions, showAgentPanel, timers>>

\* await axios.post('/api/chat') rejects
PostRejects ==
    \E i \in 1..Len(calls) :
        /\ calls[i].pc = "post"
        /\ Finish(i, UnavailableText)
        /\ UNCHANGED <<page, agent, script, inputValue, agentActions, showAgentPanel,
                       showReportPanel, currentReport, reportTitle, timers>>

-----------------------------------------------------------------------------
(* Panels and timers *)

\* the "Agent" button of the header and the close button of the agent panel,
\* both rendered only while the panel is shown
CloseAgentPanel ==
    /\ page # "plain"
    /\ showAgentPanel
    /\ showAgentPanel' = FALSE
    /\ uiEvent' = NoUiEvent
    /\ UNCHANGED <<page, agent, script, messages, inputValue, isLoading, agentActions,
                   showReportPanel, currentReport, reportTitle, timers, calls>>

\* the "report" button of the header, rendered while currentReport is not empty
ToggleReportPanel ==
    /\ Truthy(currentReport)
    /\ showReportPanel' = ~showReportPanel
    /\ uiEvent' = NoUiEvent
    /\ UNCHANGED <<page, agent, script, messages, inputValue, isLoading, agentActions,
                   showAgentPanel, currentReport, reportTitle, timers, calls>>

\* the close button of the report panel
CloseReportPanel ==
    /\ showReportPanel /\ Truthy(currentReport)
    /\ showReportPanel' = FALSE
    /\ uiEvent' = NoUiEvent
    /\ UNCHANGED <<page, agent, script, messages, inputValue, isLoading, agentActions,
                   showAgentPanel, currentReport, reportTitle, timers, calls>>

\* setTimeout(() => setShowAgentPanel(false), 2000) fires
AutoCollapse ==
    \E t \in timers :
        /\ t.kind = "collapse"
        /\ showAgentPanel' = FALSE
        /\ timers' = timers \ {t}
        /\ uiEvent' = NoUiEvent
        /\ UNCHANGED <<page, agent, script, messages, inputValue, isLoading, agentActions,
                       showReportPanel, currentReport, reportTitle, calls>>

SimulatedAction(i, k) ==
    [id |-> <<i, k>>, type |-> SimulatedTypes[k], title |-> SimulatedTitles[k],
     status |-> "running"]

\* simulateAgentActions: the timer of action k (delay index * 800) fires; the
\* timers of one call fire in the order of their delays
SimulatedStart ==
    \E t \in timers :
        /\ t.kind = "start"
        /\ t.index = 1 \/ StartTimer(t.call, t.index - 1) \notin timers
        /\ agentActions' = Append(agentActions, SimulatedAction(t.call, t.index))
        /\ timers' = (timers \ {t}) \cup {CompleteTimer(t.call, t.index)}
        /\ uiEvent' = NoUiEvent
        /\ UNCHANGED <<page, agent, script, messages, inputValue, isLoading, showAgentPanel,
                       showReportPanel, currentReport, reportTitle, calls>>

\* simulateAgentActions: the completion timer of action k fires, at least 1000 ms
\* after its start, so after the start of the next action (800 ms later)
SimulatedComplete ==
    \E t \in timers :
        /\ t.kind = "complete"
        /\ StartTimer(t.call, t.index + 1) \notin timers
        /\ agentActions' =
              [n \in 1..Len(agentActions) |->
                  IF agentActions[n].id = <<t.call, t.index>>
                  THEN [agentActions[n] EXCEPT !.status = "completed"]
                  ELSE agentActions[n]]
        /\ timers' = timers \ {t}
        /\ uiEvent' = NoUiEvent
        /\ UNCHANGED <<page, agent, script, messages, inputValue, isLoading, showAgentPanel,
                       showReportPanel, currentReport, reportTitle, calls>>

-----------------------------------------------------------------------------
(* The agent                                                               *)
(*                                                                         *)
(* backend/app/agent/agent.py is not among the sources; the agent is       *)
(* modelled from its description: a fixed linear pipeline of four named    *)
(* stages, each a single LLM invocation, the search stage additionally     *)
(* calling a web-search API, without branching or retries, a failure       *)
(* being caught and reported, progress being relayed as it occurs.         *)

\* the stages of the pipeline, in its order
Stages == <<"plan", "search", "analyze", "report">>

\* the external calls a stage makes
StageCalls(stage) == IF stage = "search" THEN {"web", "llm"} ELSE {"llm"}

\* what a hosted model or the search API may return
Outputs == {"x", "y"}

\* the user queries of the requests
Queries == {"company", "sector"}

\* a pipeline that moves on past the stage after the first one
NextStageSkipping(n) == IF n = 1 THEN n + 2 ELSE n + 1

\* the stage that follows stage number n (0: none has run yet)
NextStage(n) == n + 1

ProgressEvent(n, status) == [stage |-> Stages[n], status |-> status]

AgentIdle ==
    [status |-> "idle", query |-> "", stage |-> 0, toCall |-> {}, waiting |-> "",
     got |-> <<>>, outputs |-> <<>>, progress |-> <<>>]

\* a request arrives: the agent works on one request from its beginning
AgentReceive ==
    /\ agent.status \in {"idle", "done", "failed"}
    /\ \E q \in Queries :
          agent' = [AgentIdle EXCEPT !.status = "ready", !.query = q]
    /\ UNCHANGED <<chatVars, script>>

\* the next stage starts and its start is relayed
AgentStageStarts ==
    /\ agent.status = "ready"
    /\ agent' = [agent EXCEPT !.status = "running",
                              !.stage = NextStage(agent.stage),
                              !.toCall = StageCalls(Stages[NextStage(agent.stage)]),
                              !.got = <<>>,
                              !.progress = Append(@, ProgressEvent(NextStage(agent.stage),
                                                                   "running"))]
    /\ UNCHANGED <<chatVars, script>>

\* the running stage makes one of its calls
AgentCalls ==
    /\ agent.status = "running"
    /\ agent.waiting = ""
    /\ \E c \in agent.toCall :
          agent' = [agent EXCEPT !.waiting = c, !.toCall = @ \ {c}]
    /\ UNCHANGED <<chatVars, script>>

\* the call returns
AgentCallReturns ==
    /\ agent.status = "running"
    /\ agent.waiting # ""
    /\ \E out \in Outputs :
          agent' = [agent EXCEPT !.waiting = "",
                                 !.got = Append(@, <<agent.waiting, out>>)]
    /\ UNCHANGED <<chatVars, script>>

\* the call fails: the failure is caught and reported, the request ends
AgentCallFails ==
    /\ agent.status = "running"
    /\ agent.waiting # ""
    /\ agent' = [agent EXCEPT !.status = "failed", !.waiting = "", !.toCall = {},
                              !.progress = Append(@, ProgressEvent(agent.stage, "failed"))]
    /\ UNCHANGED <<chatVars, script>>

\* the running stage has made its calls: it finishes, its end is relayed,
\* and after the last stage the request is done
AgentStageEnds ==
    /\ agent.status = "running"
    /\ agent.waiting = ""
    /\ agent.toCall = {}
    /\ agent' = [agent EXCEPT !.status = IF agent.stage = Len(Stages) THEN "done"
                                                                      ELSE "ready",
                              !.outputs = Append(@, agent.got),
                              !.got = <<>>,
                              !.progress = Append(@, ProgressEvent(agent.stage,
                                                                   "completed"))]
    /\ UNCHANGED <<chatVars, script>>

-----------------------------------------------------------------------------
(* The start scripts                                                       *)
(*                                                                         *)
(* One run of a start script on one machine: start.sh with uv, start.sh    *)
(* with pip, or start.bat.  The script is a sequence of steps; the         *)
(* services it launches run beside it and may stop on their own at any     *)
(* time.  A signal may be sent to the process of a shell script at any     *)
(* time; the shell acts on it between two commands.  The launched          *)
(* services run in the background and get no signal but from the script.   *)
(* backend/.env.example is a file of the repository and is taken to be     *)
(* present.                                                                *)

Variants == {"uv", "pip", "bat"}

\* the signals of an interrupt
Signals == {"INT", "TERM"}

\* exit 1
ExitFailure == 1

\* exit 0, and the status of a script that runs to its end
ExitSuccess == 0

\* the steps of each script in the order of its text
ProgramUv ==
    <<"check_env", "check_uv", "frontend_deps", "backend_deps", "mkdir", "trap",
      "start_backend", "backend_pid", "sleep", "check_backend",
      "start_frontend", "frontend_pid",
      "monitor_sleep", "monitor_backend", "monitor_frontend">>

ProgramPip ==
    <<"check_env", "frontend_deps", "check_python", "backend_deps", "mkdir",
      "start_backend", "backend_pid", "sleep", "start_frontend", "frontend_pid",
      "trap", "wait">>

ProgramBat ==
    <<"check_env", "check_uv", "frontend_deps", "backend_deps", "mkdir",
      "start_backend", "sleep", "start_frontend", "pause", "taskkill">>

Program(variant) ==
    CASE variant = "uv"  -> ProgramUv
      [] variant = "pip" -> ProgramPip
      [] variant = "bat" -> ProgramBat

\* the step after the one the script is at
Following(s) ==
    LET prog == Program(s.variant)
        n == CHOOSE k \in 1..Len(prog) : prog[k] = s.pc
    IN  IF n < Len(prog) THEN prog[n + 1] ELSE "end"

Proceed(s) == [s EXCEPT !.pc = Following(s)]

\* exit with a status
Exit(s, code) == [s EXCEPT !.pc = "exited", !.exit = <<code>>]

\* exit /b 1 of start.bat comes after a pause; exit 1 of start.sh at once
Fail(s) ==
    IF s.variant = "bat" THEN [s EXCEPT !.pc = "pause_fail"] ELSE Exit(s, ExitFailure)

\* the script is over: it has exited, or a signal has terminated it
Over(s) == s.pc \in {"exited", "killed"}

\* a script before its first step on a machine
ScriptAt(variant, envFile, uv, python3, nodeModules, venv) ==
    [variant |-> variant, pc |-> "check_env", exit |-> <<>>,
     envFile |-> envFile, hadEnv |-> envFile, uv |-> uv, python3 |-> python3,
     nodeModules |-> nodeModules, venv |-> venv, logs |-> FALSE,
     trap |-> {}, interrupted |-> "", backend |-> "none", frontend |-> "none",
     backendPid |-> FALSE, frontendPid |-> FALSE]

\* no script has been run
NoScript == [ScriptAt("uv", TRUE, TRUE, TRUE, TRUE, TRUE) EXCEPT !.pc = "exited"]

\* the .env check going on after it has created the file
CheckEnvStepContinuing(s) ==
    IF ~s.envFile
    THEN Proceed([s EXCEPT !.envFile = TRUE])
    ELSE Proceed(s)

\* if backend/.env is missing: copy the template, ask for its editing, exit 1
CheckEnvStep(s) ==
    IF ~s.envFile
    THEN Fail([s EXCEPT !.envFile = TRUE])
    ELSE Proceed(s)

\* if uv is not installed: exit 1
CheckUvStep(s) == IF ~s.uv THEN Fail(s) ELSE Proceed(s)

\* if python3 is not installed: exit 1
CheckPythonStep(s) == IF ~s.python3 THEN Exit(s, ExitFailure) ELSE Proceed(s)

At(step) == script.pc = step

CheckEnv ==
    /\ At("check_env")
    /\ script' = CheckEnvStep(script)
    /\ UNCHANGED <<chatVars, agent>>

CheckUv ==
    /\ At("check_uv")
    /\ script' = CheckUvStep(script)
    /\ UNCHANGED <<chatVars, agent>>

CheckPython ==
    /\ At("check_python")
    /\ script' = CheckPythonStep(script)
    /\ UNCHANGED <<chatVars, agent>>

\* npm install when frontend/node_modules is missing; its failure does not
\* stop the script
FrontendDeps ==
    /\ At("frontend_deps")
    /\ IF script.nodeModules
       THEN script' = Proceed(script)
       ELSE \E installed \in BOOLEAN :
               script' = Proceed([script EXCEPT !.nodeModules = installed])
    /\ UNCHANGED <<chatVars, agent>>

\* uv sync when backend/.venv is missing; pip install -r requirements.txt in
\* the pip script; a failure does not stop the script
BackendDeps ==
    /\ At("backend_deps")
    /\ IF script.variant = "pip" \/ script.venv
       THEN script' = Proceed(script)
       ELSE \E installed \in BOOLEAN :
               script' = Proceed([script EXCEPT !.venv = installed])
    /\ UNCHANGED <<chatVars, agent>>

\* mkdir -p backend/logs
MakeLogs ==
    /\ At("mkdir")
    /\ script' = Proceed([script EXCEPT !.logs = TRUE])
    /\ UNCHANGED <<chatVars, agent>>

\* trap cleanup SIGINT SIGTERM; trap '...' INT in the pip script
SetTrap ==
    /\ At("trap")
    /\ script' = Proceed([script EXCEPT
                     !.trap = IF script.variant = "uv" THEN {"INT", "TERM"} ELSE {"INT"}])
    /\ UNCHANGED <<chatVars, agent>>

\* the backend is launched in the background
StartBackend ==
    /\ At("start_backend")
    /\ script' = Proceed([script EXCEPT !.backend = "running"])
    /\ UNCHANGED <<chatVars, agent>>

\* BACKEND_PID=$!
RecordBackendPid ==
    /\ At("backend_pid")
    /\ script' = Proceed([script EXCEPT !.backendPid = TRUE])
    /\ UNCHANGED <<chatVars, agent>>

\* sleep 5; timeout /t 5
StartupWait ==
    /\ At("sleep")
    /\ script' = Proceed(script)
    /\ UNCHANGED <<chatVars, agent>>

\* kill -0 $PID: the process exists, be it running or on its way out after
\* a kill
Alive(service) == service \in {"running", "stopping"}

\* the backend check passing whatever has become of the backend
CheckBackendStepPassing(s) == Proceed(s)

\* if the backend is not alive after the wait: exit 1
CheckBackendStep(s) == IF ~Alive(s.backend) THEN Exit(s, ExitFailure) ELSE Proceed(s)

CheckBackend ==
    /\ At("check_backend")
    /\ script' = CheckBackendStep(script)
    /\ UNCHANGED <<chatVars, agent>>

\* the frontend is launched in the background
StartFrontend ==
    /\ At("start_frontend")
    /\ script' = Proceed([script EXCEPT !.frontend = "running"])
    /\ UNCHANGED <<chatVars, agent>>

\* FRONTEND_PID=$!
RecordFrontendPid ==
    /\ At("frontend_pid")
    /\ script' = Proceed([script EXCEPT !.frontendPid = TRUE])
    /\ UNCHANGED <<chatVars, agent>>

\* sleep 1 of the monitor loop
MonitorSleep ==
    /\ At("monitor_sleep")
    /\ script' = Proceed(script)
    /\ UNCHANGED <<chatVars, agent>>

\* the loop's test of the backend: cleanup if it is not alive
MonitorBackend ==
    /\ At("monitor_backend")
    /\ script' = IF ~Alive(script.backend) THEN [script EXCEPT !.pc = "cleanup_backend"]
                                          ELSE Proceed(script)
    /\ UNCHANGED <<chatVars, agent>>

\* the monitor loop going round whatever has become of the frontend
MonitorFrontendStepBlind(s) == [s EXCEPT !.pc = "monitor_sleep"]

MonitorFrontendStep(s) ==
    IF ~Alive(s.frontend) THEN [s EXCEPT !.pc = "cleanup_backend"]
                          ELSE [s EXCEPT !.pc = "monitor_sleep"]

\* the loop's test of the frontend: cleanup if it is not alive, else again
MonitorFrontend ==
    /\ At("monitor_frontend")
    /\ script' = MonitorFrontendStep(script)
    /\ UNCHANGED <<chatVars, agent>>

\* kill $PID: SIGTERM is sent to the process, which ends in its own time
Kill(service) == IF service = "running" THEN "stopping" ELSE service

\* cleanup: kill the backend if BACKEND_PID is set
CleanupBackend ==
    /\ At("cleanup_backend")
    /\ script' = [script EXCEPT !.pc = "cleanup_frontend",
                                !.backend = IF script.backendPid THEN Kill(@) ELSE @]
    /\ UNCHANGED <<chatVars, agent>>

\* cleanup: kill the frontend if FRONTEND_PID is set; exit 0
CleanupFrontend ==
    /\ At("cleanup_frontend")
    /\ script' = Exit([script EXCEPT !.frontend = IF script.frontendPid THEN Kill(@) ELSE @],
                      ExitSuccess)
    /\ UNCHANGED <<chatVars, agent>>

\* wait of the pip script: returns when no launched service is left, and the
\* script ends
Wait ==
    /\ At("wait")
    /\ ~Alive(script.backend)
    /\ ~Alive(script.frontend)
    /\ script' = Exit(script, ExitSuccess)
    /\ UNCHANGED <<chatVars, agent>>

\* the status of a shell that a signal interrupted
SignalNumber(sig) == IF sig = "INT" THEN 2 ELSE 15

InterruptedStatus(sig) == 128 + SignalNumber(sig)

\* the steps of cleanup and of the trap of the pip script
HandlerSteps == {"cleanup_backend", "cleanup_frontend", "trap_kill"}

\* a signal arrives at a shell script and is acted on once the command at
\* hand is over: its trap runs if one is set for it, else it terminates the
\* script there and then.  A trap that runs while cleanup is at work kills
\* what cleanup would have killed and exits as cleanup would have.
Interrupt ==
    /\ script.variant # "bat"
    /\ ~Over(script)
    /\ \E sig \in Signals :
          script' = [script EXCEPT
              !.interrupted = sig,
              !.pc = IF sig \in script.trap
                     THEN IF script.pc \in HandlerSteps THEN script.pc
                          ELSE IF script.variant = "uv" THEN "cleanup_backend"
                               ELSE "trap_kill"
                     ELSE "killed"]
    /\ UNCHANGED <<chatVars, agent>>

\* the trap of the pip script: kill $BACKEND_PID $FRONTEND_PID; exit, with
\* the status of kill or the one the interrupted wait left
TrapKill ==
    /\ At("trap_kill")
    /\ \E code \in {ExitSuccess, ExitFailure, InterruptedStatus(script.interrupted)} :
          script' = Exit([script EXCEPT
                            !.backend = IF script.backendPid THEN Kill(@) ELSE @,
                            !.frontend = IF script.frontendPid THEN Kill(@) ELSE @],
                         code)
    /\ UNCHANGED <<chatVars, agent>>

\* pause of start.bat: a key is pressed
Pause ==
    /\ \/ /\ At("pause_fail")
          /\ script' = Exit(script, ExitFailure)
       \/ /\ At("pause")
          /\ script' = Proceed(script)
    /\ UNCHANGED <<chatVars, agent>>

\* taskkill /f: the process is terminated
ForceKill(service) == IF Alive(service) THEN "stopped" ELSE service

\* taskkill /f /im node.exe, taskkill /f /im python.exe, and the script ends
TaskKill ==
    /\ At("taskkill")
    /\ script' = Exit([script EXCEPT !.frontend = ForceKill(@), !.backend = ForceKill(@)],
                      ExitSuccess)
    /\ UNCHANGED <<chatVars, agent>>

\* a launched service stops, on its own or after a kill
BackendExits ==
    /\ Alive(script.backend)
    /\ script' = [script EXCEPT !.backend = "stopped"]
    /\ UNCHANGED <<chatVars, agent>>

FrontendExits ==
    /\ Alive(script.frontend)
    /\ script' = [script EXCEPT !.frontend = "stopped"]
    /\ UNCHANGED <<chatVars, agent>>

-----------------------------------------------------------------------------
(* The page *)

\* the useState initial values
Mounted ==
    /\ messages = InitialMessages
    /\ inputValue = <<>>
    /\ isLoading = FALSE
    /\ agentActions = <<>>
    /\ showAgentPanel = FALSE
    /\ showReportPanel = FALSE
    /\ currentReport = EmptyText
    /\ reportTitle = FALSE
    /\ timers = {}
    /\ calls = <<>>
    /\ uiEvent = NoUiEvent

\* the page alone: no request at the agent, no script run
Init ==
    /\ page \in Pages
    /\ Mounted
    /\ agent = AgentIdle
    /\ script = NoScript

Next ==
    \/ KeyPress
    \/ ClickSend
    \/ ChangeInput
    \/ FetchResolves
    \/ FetchRejects
    \/ ReadChunk
    \/ ReadDone
    \/ ReadRejects
    \/ StreamReturned
    \/ StreamThrew
    \/ PostResolves
    \/ PostRejects
    \/ CloseAgentPanel
    \/ ToggleReportPanel
    \/ CloseReportPanel
    \/ AutoCollapse

Spec == Init /\ [][Next]_vars

\* the page against a network whose every operation ends: a fetch resolves
\* or rejects, the response stream ends or fails (unless a final event ends
\* its reading), a post resolves or rejects; the continuations of the awaits
\* run
SpecFair ==
    /\ Init
    /\ [][Next]_vars
    /\ WF_vars(FetchResolves \/ FetchRejects)
    /\ WF_vars(ReadDone \/ ReadRejects)
    /\ WF_vars(StreamReturned)
    /\ WF_vars(StreamThrew)
    /\ WF_vars(PostResolves \/ PostRejects)

\* the revision of the page that plays simulated agent actions
InitSimulated ==
    /\ page = "simulated"
    /\ Mounted
    /\ agent = AgentIdle
    /\ script = NoScript

NextSimulated ==
    \/ KeyPress
    \/ ClickSend
    \/ ChangeInput
    \/ PostResolves
    \/ PostRejects
    \/ CloseAgentPanel
    \/ SimulatedStart
    \/ SimulatedComplete

SpecSimulated == InitSimulated /\ [][NextSimulated]_vars

\* the agent alone
InitAgent ==
    /\ page = "stream"
    /\ Mounted
    /\ agent = AgentIdle
    /\ script = NoScript

NextAgent ==
    \/ AgentReceive
    \/ AgentStageStarts
    \/ AgentCalls
    \/ AgentCallReturns
    \/ AgentCallFails
    \/ AgentStageEnds

SpecAgent == InitAgent /\ [][NextAgent]_vars

\* one run of a start script
InitStart ==
    /\ page = "stream"
    /\ Mounted
    /\ agent = AgentIdle
    /\ \E variant \in Variants, envFile, uv, python3, nodeModules, venv \in BOOLEAN :
          script = ScriptAt(variant, envFile, uv, python3, nodeModules, venv)

NextStart ==
    \/ CheckEnv
    \/ CheckUv
    \/ CheckPython
    \/ FrontendDeps
    \/ BackendDeps
    \/ MakeLogs
    \/ SetTrap
    \/ StartBackend
    \/ RecordBackendPid
    \/ StartupWait
    \/ CheckBackend
    \/ StartFrontend
    \/ RecordFrontendPid
    \/ MonitorSleep
    \/ MonitorBackend
    \/ MonitorFrontend
    \/ CleanupBackend
    \/ CleanupFrontend
    \/ Wait
    \/ Interrupt
    \/ TrapKill
    \/ Pause
    \/ TaskKill
    \/ BackendExits
    \/ FrontendExits

SpecStart == InitStart /\ [][NextStart]_vars

\* the steps the shell takes by itself: every step of the script but the
\* wait for a key
ScriptStep ==
    \/ CheckEnv
    \/ CheckUv
    \/ CheckPython
    \/ FrontendDeps
    \/ BackendDeps
    \/ MakeLogs
    \/ SetTrap
    \/ StartBackend
    \/ RecordBackendPid
    \/ StartupWait
    \/ CheckBackend
    \/ StartFrontend
    \/ RecordFrontendPid
    \/ MonitorSleep
    \/ MonitorBackend
    \/ MonitorFrontend
    \/ CleanupBackend
    \/ CleanupFrontend
    \/ Wait
    \/ TrapKill
    \/ TaskKill

\* a run in which the shell goes on to its next command: each command of
\* the script ends (sleep returns, an install ends)
SpecStartFair == InitStart /\ [][NextStart]_vars /\ WF_vars(ScriptStep)

-----------------------------------------------------------------------------
(* Properties of the chat page *)

Last(q) == q[Len(q)]

CallIds == 1..Len(calls)

\* the step event e shows in the agent panel
Shown(e) ==
    \E n \in 1..Len(agentActions) :
        /\ agentActions[n].title = e.step_name
        /\ agentActions[n].status = ActionStatus(e.status)

\* C1: while handleAgentStream reads the stream, every step event it has read
\* so far shows in agentActions with its latest status, and the placeholder is
\* still the last message: steps are applied when read, before later events
\* are read and before the reply is appended.
C1_StepsShownWhenRead ==
    \A i \in CallIds :
        /\ \A e \in calls[i].seen : Shown(e)
        /\ calls[i].pc \in {"read", "returned"} => Last(messages) = LoadingMessage

\* a stream still being read has shown two steps
C1_Witness ==
    \E i \in CallIds :
        /\ calls[i].pc = "read"
        /\ ~calls[i].finalSeen
        /\ Cardinality(calls[i].seen) = 2
        /\ Len(agentActions) = 2

\* C3: a failing streaming request (response not ok, no reader, rejected fetch
\* or read) appends exactly the error action after the actions shown and
\* rejects; handleSendMessage then replaces the placeholder by the
\* service-unavailable message without having posted to /api/chat.
C3_StreamFailureReported ==
    [][\A i \in CallIds :
          /\ (calls[i].failure = "" /\ calls'[i].failure # "") =>
                /\ agentActions' = Append(agentActions, ErrorAction)
                /\ calls'[i].pc = "threw"
                /\ messages' = messages
          /\ (calls[i].pc = "threw" /\ calls'[i] # calls[i]) =>
                /\ calls'[i].pc = "done"
                /\ calls[i].posts = 0
                /\ Last(messages) = LoadingMessage
                /\ messages' = SubSeq(messages, 1, Len(messages) - 1)
                                  \o <<BotMessage(UnavailableText)>>
                /\ ~isLoading']_vars

\* a read has failed after two steps were shown
C3_Witness ==
    \E i \in CallIds :
        /\ calls[i].pc = "threw"
        /\ calls[i].failure = "read rejected"
        /\ Len(agentActions) = 3
        /\ agentActions[3] = ErrorAction

\* C4: once an event of type error has been read, the request has failed:
\* handleAgentStream has rejected and the error action is the last action.
C4_ErrorEventFailsRequest ==
    \A i \in CallIds :
        calls[i].errorSeen =>
            /\ calls[i].pc = "threw"
            /\ agentActions # <<>> /\ Last(agentActions).status = "error"

\* C5: a call of handleSendMessage with blank input or while loading changes
\* nothing, and at most one request to the backend is unanswered at any time.
C5_SendGuard ==
    /\ [](SumInFlight(calls) <= 1)
    /\ [][(uiEvent'.called /\ (Trim(inputValue) = <<>> \/ isLoading)) =>
             UNCHANGED <<pageVars, timers, calls>>]_vars

\* handleSendMessage was called with whitespace-only input and returned at once
C5_Witness ==
    /\ uiEvent.called /\ ~uiEvent.accepted
    /\ inputValue = <<" ">>

Replies == (Responses \ {EmptyText}) \cup {ApologyText, UnavailableText}

\* C6: messages is the greeting followed, for every accepted send, by the
\* user's message and one bot message: the placeholder while the send runs,
\* one reply once it is complete; messages that are not the placeholder are
\* never changed or moved.
C6_OneReplyPerSend ==
    /\ [](/\ Len(messages) = 2 * Len(calls) + 1
          /\ messages[1] = BotMessage(Greeting)
          /\ \A k \in CallIds :
                /\ messages[2 * k].type = "user" /\ ~messages[2 * k].isLoading
                /\ IF Active(calls[k])
                   THEN /\ messages[2 * k] = UserMessage(calls[k].query)
                        /\ messages[2 * k + 1] = LoadingMessage
                   ELSE /\ messages[2 * k + 1].type = "bot"
                        /\ ~messages[2 * k + 1].isLoading
                        /\ messages[2 * k + 1].content \in Replies)
    /\ [][/\ \A k \in 1..Len(messages) :
                ~messages[k].isLoading =>
                    k <= Len(messages') /\ messages'[k] = messages[k]
          /\ Len(calls') > Len(calls) =>
                messages' = messages \o <<UserMessage(inputValue), LoadingMessage>>
          /\ \A i \in CallIds :
                (Active(calls[i]) /\ ~Active(calls'[i])) =>
                    /\ Len(messages') = Len(messages)
                    /\ ~isLoading']_vars

\* two sends are complete
C6_Witness ==
    /\ Len(calls) = 2
    /\ ~isLoading
    /\ Len(messages) = 5
    /\ messages[3].content = UnavailableText
    /\ messages[5].content \in Responses

\* C7 as claimed: once a final event has been read, /api/chat is not posted to.
C7_FinalNeverFallsBack ==
    \A i \in CallIds : calls[i].finalSeen => calls[i].posts = 0

\* C7: on the streaming page /api/chat is posted to at most once per send, and
\* exactly when handleAgentStream has returned without a non-empty response
\* (the stream ended without a final event, or the final event's response was
\* empty); after a final event with a non-empty response it is never posted to.
C7_FallbackOnlyWithoutResponse ==
    /\ [](page = "stream" =>
            \A i \in CallIds :
                /\ calls[i].posts <= 1
                /\ calls[i].pc = "post" <=> calls[i].posts = 1
                /\ calls[i].posts = 1 => ~Truthy(calls[i].result) /\ calls[i].failure = ""
                /\ (calls[i].finalSeen /\ Truthy(calls[i].result)) => calls[i].posts = 0)
    /\ [][page = "stream" =>
            \A i \in CallIds :
                /\ (calls[i].pc = "returned" /\ calls'[i] # calls[i]) =>
                      IF Truthy(calls[i].result)
                      THEN calls'[i].pc = "done" /\ Last(messages').content = calls[i].result
                      ELSE calls'[i].pc = "post" /\ calls'[i].posts = 1
                /\ (calls[i].pc = "post" /\ calls'[i] # calls[i]) =>
                      calls'[i].pc = "done"]_vars

\* a final event with an empty response was read, and /api/chat is posted to
C7_Witness ==
    \E i \in CallIds :
        /\ page = "stream"
        /\ calls[i].pc = "post"
        /\ calls[i].finalSeen

\* the report state the reply r calls for
ReportFor(r, report, title, panel) ==
    IF r.len > ReportThreshold
    THEN report = r /\ title
    ELSE report = EmptyText /\ ~panel

\* C8: on the streaming page, when a reply is received (a final event with a
\* response, or the answer of /api/chat), a reply longer than 500 characters
\* becomes currentReport and opens the report panel, and a shorter one leaves
\* currentReport empty and the panel closed; this still holds of the last
\* reply while no send is running, except that the user may close the panel.
C8_ReportIffLongReply ==
    /\ []((page = "stream" /\ ~isLoading /\ calls # <<>>) =>
              ReportFor(Last(messages).content, currentReport, reportTitle,
                        showReportPanel))
    /\ [][page = "stream" =>
            \A i \in CallIds :
                /\ (~calls[i].finalSeen /\ calls'[i].finalSeen /\ Truthy(calls'[i].result)) =>
                      /\ ReportFor(calls'[i].result, currentReport', reportTitle',
                                   showReportPanel')
                      /\ showReportPanel' <=> calls'[i].result.len > ReportThreshold
                /\ (calls[i].pc = "post" /\ calls'[i].pc = "done") =>
                      /\ ReportFor(Last(messages').content, currentReport', reportTitle',
                                   showReportPanel')
                      /\ showReportPanel' <=> Last(messages').content.len > ReportThreshold]_vars

\* a report was received from /api/chat and its panel is open
C8_Witness ==
    /\ page = "stream"
    /\ ~isLoading
    /\ calls # <<>>
    /\ Last(messages).content.len = ReportThreshold + 1
    /\ currentReport = Last(messages).content
    /\ showReportPanel

\* C9: a key press calls handleSendMessage, and suppresses the key's default
\* action, exactly when the key is Enter without Shift; any other key press
\* changes nothing, and Enter without Shift sends whenever the guard of
\* handleSendMessage lets it.
C9_EnterSends ==
    /\ [](uiEvent.kind = "keypress" =>
            /\ uiEvent.called <=> (uiEvent.key = "Enter" /\ ~uiEvent.shift)
            /\ uiEvent.prevented <=> uiEvent.called)
    /\ [][uiEvent'.kind = "keypress" =>
            IF uiEvent'.key = "Enter" /\ ~uiEvent'.shift /\ ~SendRejected(inputValue, isLoading)
            THEN Len(calls') = Len(calls) + 1 /\ isLoading'
            ELSE UNCHANGED <<pageVars, timers, calls>>]_vars

\* Enter without Shift has sent a message
C9_Witness ==
    /\ uiEvent.kind = "keypress"
    /\ uiEvent.key = "Enter" /\ ~uiEvent.shift
    /\ uiEvent.accepted
    /\ isLoading


-----------------------------------------------------------------------------
(* Properties of the agent *)

\* the progress of a request that runs every stage: each stage starts and
\* finishes, in the order of the pipeline
StageProgress ==
    [n \in 1..(2 * Len(Stages)) |->
        ProgressEvent((n + 1) \div 2, IF n % 2 = 1 THEN "running" ELSE "completed")]

-----------------------------------------------------------------------------
(* Properties of the start scripts *)

\* C10: a start script run without backend/.env, or (the scripts that use
\* uv) without uv installed, never gets past its checks: neither service is
\* ever launched, the only status it exits with is 1 (a signal may terminate
\* it before it exits), and once the .env
\* check has been made without the file, the file is there, created from
\* the template.
C10_MissingPrerequisiteExits ==
    (~script.hadEnv \/ (script.variant \in {"uv", "bat"} /\ ~script.uv)) =>
        /\ script.backend = "none"
        /\ script.frontend = "none"
        /\ ~script.backendPid
        /\ ~script.frontendPid
        /\ script.pc \in {"check_env", "check_uv", "pause_fail", "exited", "killed"}
        /\ script.pc = "exited" => script.exit = <<ExitFailure>>
        /\ (~script.hadEnv /\ script.pc \in {"pause_fail", "exited"}) =>
              script.envFile
        /\ ~script.hadEnv => script.pc # "check_uv"

\* start.sh with uv has exited after creating the missing backend/.env
C10_Witness ==
    /\ script.variant = "uv"
    /\ ~script.hadEnv
    /\ script.envFile
    /\ script.pc = "exited"
    /\ script.exit = <<ExitFailure>>


\* C11: once a shell script has ended after an interrupt, no service it
\* launched is still running.
C11_InterruptStopsServices ==
    (script.variant \in {"uv", "pip"} /\ Over(script) /\ script.interrupted # "") =>
        /\ script.backend # "running"
        /\ script.frontend # "running"

\* C12: start.sh with uv launches the backend before the frontend, and the
\* frontend only after the check that follows the start-up wait has found
\* the backend alive; if the check finds it gone, the script exits with
\* status 1 and the frontend is never launched.
C12_FrontendOnlyAfterLiveBackend ==
    /\ [](script.variant = "uv" =>
            /\ script.frontend # "none" => script.backend # "none" /\ script.backendPid
            /\ (script.pc = "exited" /\ script.exit = <<ExitFailure>>) =>
                  script.frontend = "none"
            /\ script.pc \in {"start_backend", "backend_pid", "sleep", "check_backend"} =>
                  script.frontend = "none")
    /\ [][(/\ script.variant = "uv"
           /\ script.pc = "check_backend"
           /\ script'.pc # "check_backend"
           /\ script'.interrupted = "") =>
             IF Alive(script.backend)
             THEN script'.pc = "start_frontend" /\ script'.frontend = "none"
             ELSE /\ script'.pc = "exited"
                  /\ script'.exit = <<ExitFailure>>
                  /\ script'.frontend = "none"]_vars

\* the backend was gone at the check, and start.sh has exited with status 1
C12_Witness ==
    /\ script.variant = "uv"
    /\ script.pc = "exited"
    /\ script.exit = <<ExitFailure>>
    /\ script.backendPid
    /\ script.backend = "stopped"
    /\ script.frontend = "none"

\* the steps of the monitor loop
MonitorSteps == {"monitor_sleep", "monitor_backend", "monitor_frontend"}

\* C13: when a service is gone while start.sh with uv monitors the two, the
\* script does not go on monitoring: the test of the loop that finds it gone
\* goes to cleanup, the script ends, and when it has exited from the loop the
\* other service has been killed.
C13_MonitorEndsWithBoth ==
    /\ [](/\ script.variant = "uv"
          /\ script.pc \in MonitorSteps
          /\ (~Alive(script.backend) \/ ~Alive(script.frontend))
          => <>Over(script))
    /\ [](/\ script.variant = "uv"
          /\ script.pc = "exited"
          /\ script.frontendPid
          /\ script.interrupted = ""
          => /\ script.exit = <<ExitSuccess>>
             /\ script.backend # "running"
             /\ script.frontend # "running")
    /\ [][(/\ script.variant = "uv"
           /\ script.pc \in {"monitor_backend", "monitor_frontend"}
           /\ script'.pc # script.pc
           /\ script'.interrupted = "") =>
             IF script.pc = "monitor_backend"
             THEN script'.pc = IF Alive(script.backend) THEN "monitor_frontend"
                                                       ELSE "cleanup_backend"
             ELSE script'.pc = IF Alive(script.frontend) THEN "monitor_sleep"
                                                        ELSE "cleanup_backend"]_vars

\* the frontend stopped, and start.sh has killed the backend and exited
C13_Witness ==
    /\ script.variant = "uv"
    /\ script.pc = "exited"
    /\ script.interrupted = ""
    /\ script.exit = <<ExitSuccess>>
    /\ script.frontend = "stopped"
    /\ script.backend = "stopping"


-----------------------------------------------------------------------------
(* Further properties of the chat page *)

\* the step events the updater is tried with: those a stream may carry and
\* one that bears the title of the error action
StepsTried == StepEvents \cup {StepEvent(ErrorAction.title, "running")}

\* C14: on the streaming page no two entries of agentActions have the same
\* title, and a step event applied to the list as it is either replaces the
\* entry of its title in place, the length and the other entries unchanged,
\* or, its title being new, is appended at the end.
C14_OneEntryPerTitle ==
    page = "stream" =>
        /\ \A n, k \in 1..Len(agentActions) :
              agentActions[n].title = agentActions[k].title => n = k
        /\ \A e \in StepsTried :
              LET new == UpsertAction(agentActions, NewAction(e)) IN
              IF \E n \in 1..Len(agentActions) : agentActions[n].title = e.step_name
              THEN /\ Len(new) = Len(agentActions)
                   /\ \A n \in 1..Len(agentActions) :
                         new[n] = IF agentActions[n].title = e.step_name
                                  THEN NewAction(e)
                                  ELSE agentActions[n]
              ELSE new = Append(agentActions, NewAction(e))

\* two steps were appended, and the stream being read may next carry the
\* first one again with another status
C14_Witness ==
    /\ page = "stream"
    /\ Len(agentActions) = 2
    /\ agentActions[1] = NewAction(StepEvent(<<"guihua">>, "running"))
    /\ agentActions[2].title = <<"sousuo", "fenxi">>
    /\ \E i \in CallIds : calls[i].pc = "read"


\* C15: isLoading is true exactly while an accepted send is running, and
\* when every network operation ends, a send that is running always comes
\* to its end and isLoading is false again.
C15_LoadingEnds ==
    /\ [](isLoading <=> \E i \in CallIds : Active(calls[i]))
    /\ (isLoading ~> ~isLoading)

\* a send that fell back to /api/chat has ended
C15_Witness ==
    /\ ~isLoading
    /\ Len(calls) = 1
    /\ page = "stream"
    /\ Last(messages).content = ApologyText

\* the loading placeholders among the messages
LoadingIndices == {k \in 1..Len(messages) : messages[k].isLoading}

\* C16: messages never holds more than one loading placeholder, and holds
\* none while isLoading is false.
C16_OnePlaceholder ==
    /\ Cardinality(LoadingIndices) <= 1
    /\ ~isLoading => LoadingIndices = {}

\* the placeholder of a second send, the first one's having been replaced
C16_Witness ==
    /\ isLoading
    /\ Len(calls) = 2
    /\ LoadingIndices = {Len(messages)}
    /\ ~messages[3].isLoading


\* C17: cutting the stream into chunks loses no event: when a read delivers
\* the rest of a data line whose beginning an earlier read delivered, the
\* event of the line is applied as if the line had come in one read (a step
\* is shown, an error event is noted, a final event ends the reading).
C17_SplitLineApplied ==
    [][\A i \in CallIds :
          (/\ calls[i].pc = "read"
           /\ calls[i].server.at = "half"
           /\ calls'[i].pc = "read"
           /\ calls'[i].server # calls[i].server) =>
             LET p == calls[i].server.payload IN
             /\ p.type # "final"
             /\ p.type = "step" => \E e \in calls'[i].seen : e.step_name = p.step_name
             /\ p.type = "error" => calls'[i].errorSeen]_vars


\* C18: the auto-collapse timer of a request never hides the agent panel
\* while a later request is running.
C18_TimerSparesLaterRequest ==
    [][\A t \in timers \ timers' :
          (t.kind = "collapse" /\ showAgentPanel /\ ~showAgentPanel') =>
              ~\E j \in CallIds : j > t.call /\ Active(calls[j])]_vars

\* the lines that are no data line, and the data lines whose payload is not
\* JSON
BadLines ==
    {<<>>, <<OtherText>>, <<DataPrefix>>,
     <<DataPrefix, JsonHalf(Garbage, 1), JsonHalf(Garbage, 2)>>}
    \cup {<<DataPrefix, JsonHalf(p, 1)>> : p \in Payloads}
    \cup {<<JsonHalf(p, 2)>> : p \in Payloads}

\* the line of an event
EventLine(e) == <<DataPrefix, JsonHalf(e, 1), JsonHalf(e, 2)>>

\* C19: whatever the page has read so far, a line that does not start with
\* the data prefix, or whose payload is not JSON, changes nothing and does
\* not end the reading: the loop's state after it is the state before it,
\* and the line after it in the chunk is handled as without it.
C19_BadLinesIgnored ==
    \A i \in CallIds :
        calls[i].pc = "read" =>
            LET st == LoopState(calls[i]) IN
            \A bad \in BadLines :
                /\ OnLine(st, bad) = st
                /\ ~OnLine(st, bad).returned
                /\ \A e \in Events :
                      OnLines(st, <<bad, EventLine(e)>>) = OnLines(st, <<EventLine(e)>>)

\* the last read ended in a data line whose payload is not JSON, steps were
\* shown before it, and the reading goes on
C19_Witness ==
    \E i \in CallIds :
        /\ calls[i].pc = "read"
        /\ calls[i].server = AfterHalf(Garbage)
        /\ calls[i].seen # {}

=============================================================================
